---- MODULE Spec2Model ----
(***************************************************************************)
(* Emotion sensing lamp (main.py): the EmotionProcessor (history buffer,   *)
(* pattern detector, emotion -> light table), the Bluetooth lamp gateway   *)
(* and the control loop of main(); the music player variant                *)
(* (main+音乐播放.py): play_music_for_emotion and its frame loop.           *)
(***************************************************************************)
EXTENDS Integers, Sequences, FiniteSets, TLC

VARIABLES
    pc,                 \* "loop" while main() is inside `while True`, "done" after the finally block
    frame_count,        \* main(): frame_count
    current_emotion,    \* main(): current_emotion of the latest iteration / latest detect_emotion result
    last_emotion,       \* main(): last_emotion (committed label)
    last_light_params,  \* main(): last_light_params (committed parameters)
    emotion_history,    \* EmotionProcessor.emotion_history
    ncalls,             \* number of BluetoothLampController.set_light invocations so far
    last_call,          \* arguments of the most recent set_light invocation
    samples,            \* per classified frame: the raw label pushed to the history, or "none"
    switches,           \* number of changes between consecutive entries of samples
    last_input,         \* shape of the classifier output of the latest loop iteration that classified:
                        \* "start" | "accepted" | "empty" | "lowconf" | "notlist" | "raises"
    mapper_in,          \* argument of a direct map_emotion_to_light call
    mapper_out,         \* its result
    mapper_pc,          \* "pick" | "called"
    last_write,         \* what happened inside the most recent observed set_light:
                        \* "none" | "ok" | "reconnected" | "lost"
    music_pc,           \* music variant: "read" (at cap.read) | "faces" (inside `for face in faces`) | "closed"
    music_frames,       \* music variant: frames read so far
    pending,            \* music variant: arg-max labels of the faces of this frame not yet handled
    face_no,            \* music variant: faces of this frame already handled
    current_music,      \* music variant: global current_music
    playing,            \* music variant: the track the mixer is playing
    last_requested,     \* music variant: argument of the latest play_music_for_emotion call
    last_result         \* music variant: how that call went: "none" | "unknown" | "same" | "ok" | "failed"

vars == <<pc, frame_count, current_emotion, last_emotion, last_light_params,
          emotion_history, ncalls, last_call, samples, switches, last_input,
          mapper_in, mapper_out, mapper_pc, last_write,
          music_pc, music_frames, pending, face_no, current_music, playing,
          last_requested, last_result>>

loopVars == <<pc, frame_count, last_emotion, last_light_params, ncalls, last_call>>
mapperVars == <<mapper_in, mapper_out, mapper_pc>>
lampVars == <<last_write>>
musicVars == <<music_pc, music_frames, pending, face_no, current_music, playing,
               last_requested, last_result>>

(***************************************************************************)
(* Bounds of the exploration                                               *)
(***************************************************************************)
\* frames read by the control loop
MaxFrames == 55
\* changes of the camera subject's observed expression (label or no signal) between classified frames
MaxSwitches == 1
\* direct calls of detect_emotion on one EmotionProcessor
MaxCalls == 21
\* frames read by the control loop while the outcome of every lamp write is observed
MaxLampFrames == 15
\* frames read by the loop of the music variant
MaxMusicFrames == 2
\* faces the detector reports in one frame
MaxFaces == 2

(***************************************************************************)
(* Program constants                                                       *)
(***************************************************************************)
FRAME_SKIP == 5
history_max_len == 20
ConfidenceThreshold == 20
MinHistory == 10
WindowLen == 10
FocusCount == 8
TiredCount == 6

NoneVal == "None"
NoParams == <<>>

supported_emotions == {"angry", "disgust", "fear", "happy", "sad", "surprise", "neutral"}
DerivedLabels == {"focused", "tired"}

\* scores the classifier may attach to its dominant emotion (percent)
Confidences == {15, 20, 21, 90}

Faces == [dominant_emotion : supported_emotions, confidence : Confidences]

\* outputs of DeepFace.analyze: a list of faces, a non-list result, or an exception
Analyses ==
    {[kind |-> "list", faces |-> <<>>]}
    \cup {[kind |-> "list", faces |-> <<f>>] : f \in Faces}
    \cup {[kind |-> "notlist", faces |-> <<>>], [kind |-> "raises", faces |-> <<>>]}

(***************************************************************************)
(* EmotionProcessor                                                        *)
(***************************************************************************)
emotion_to_light ==
    ("happy"    :> <<85, <<255, 200, 100>>>>) @@
    ("neutral"  :> <<65, <<220, 230, 255>>>>) @@
    ("sad"      :> <<45, <<150, 180, 255>>>>) @@
    ("angry"    :> <<55, <<255, 100, 100>>>>) @@
    ("surprise" :> <<70, <<255, 255, 200>>>>) @@
    ("fear"     :> <<40, <<100, 100, 200>>>>) @@
    ("disgust"  :> <<50, <<150, 200, 100>>>>) @@
    ("default"  :> <<65, <<255, 255, 255>>>>)

\* mutant: the derived labels fall through to the table lookup
map_emotion_to_light_no_special(emotion) ==
    IF emotion \in DOMAIN emotion_to_light THEN emotion_to_light[emotion]
    ELSE emotion_to_light["default"]

map_emotion_to_light(emotion) ==
    IF emotion = "focused" THEN <<95, <<255, 255, 255>>>>
    ELSE IF emotion = "tired" THEN <<45, <<255, 180, 80>>>>
    ELSE IF emotion \in DOMAIN emotion_to_light THEN emotion_to_light[emotion]
    ELSE emotion_to_light["default"]

\* list.count
Count(s, x) == Cardinality({i \in 1 .. Len(s) : s[i] = x})

\* mutant: pop() instead of pop(0)
_update_emotion_history_pop_last(history, emotion) ==
    LET appended == Append(history, emotion)
    IN  IF Len(appended) > history_max_len THEN SubSeq(appended, 1, Len(appended) - 1) ELSE appended

_update_emotion_history(history, emotion) ==
    LET appended == Append(history, emotion)
    IN  IF Len(appended) > history_max_len THEN Tail(appended) ELSE appended

\* mutant: the counts are taken over the whole buffer instead of its last 10 entries
RecentWholeHistory(history) == history

\* emotion_history[-10:]
Recent(history) ==
    IF Len(history) <= WindowLen THEN history
    ELSE SubSeq(history, Len(history) - WindowLen + 1, Len(history))

\* mutant: the focus rule needs more than FocusCount entries
_analyze_emotion_pattern_focus_strict(history) ==
    IF Len(history) < MinHistory THEN NoneVal
    ELSE LET recent == Recent(history)
             neutral_count == Count(recent, "neutral")
             calm_count == Count(recent, "happy")
             sad_count == Count(recent, "sad")
         IN  IF neutral_count + calm_count > FocusCount THEN "focused"
             ELSE IF sad_count >= TiredCount THEN "tired"
             ELSE NoneVal

\* mutant: the fatigue rule needs more than TiredCount entries
_analyze_emotion_pattern_tired_strict(history) ==
    IF Len(history) < MinHistory THEN NoneVal
    ELSE LET recent == Recent(history)
             neutral_count == Count(recent, "neutral")
             calm_count == Count(recent, "happy")
             sad_count == Count(recent, "sad")
         IN  IF neutral_count + calm_count >= FocusCount THEN "focused"
             ELSE IF sad_count > TiredCount THEN "tired"
             ELSE NoneVal

\* mutant: no `if len(self.emotion_history) < 10: return None`
_analyze_emotion_pattern_no_min_history(history) ==
    LET recent == Recent(history)
        neutral_count == Count(recent, "neutral")
        calm_count == Count(recent, "happy")
        sad_count == Count(recent, "sad")
    IN  IF neutral_count + calm_count >= FocusCount THEN "focused"
        ELSE IF sad_count >= TiredCount THEN "tired"
        ELSE NoneVal

_analyze_emotion_pattern(history) ==
    IF Len(history) < MinHistory THEN NoneVal
    ELSE LET recent == Recent(history)
             neutral_count == Count(recent, "neutral")
             calm_count == Count(recent, "happy")
             sad_count == Count(recent, "sad")
         IN  IF neutral_count + calm_count >= FocusCount THEN "focused"
             ELSE IF sad_count >= TiredCount THEN "tired"
             ELSE NoneVal

\* mutant: `if confidence >= 20`
AcceptsAtThreshold(confidence) == confidence >= ConfidenceThreshold

\* `if confidence > 20`
Accepts(confidence) == confidence > ConfidenceThreshold

\* detect_emotion, lines 118-138: the label that reaches _update_emotion_history ("none" when
\* the frame gives no signal) and the shape of the classifier output that decided it
Classify(analysis) ==
    IF analysis.kind = "raises"
    THEN [label |-> "none", shape |-> "raises"]
    ELSE IF analysis.kind = "list" /\ Len(analysis.faces) > 0
    THEN LET emotion_result == analysis.faces[1]
             dominant_emotion == emotion_result.dominant_emotion
             confidence == emotion_result.confidence
         IN  IF Accepts(confidence)
             THEN [label |-> dominant_emotion, shape |-> "accepted"]
             ELSE [label |-> "none", shape |-> "lowconf"]
    ELSE [label |-> "none", shape |-> IF analysis.kind = "list" THEN "empty" ELSE "notlist"]

\* mutant: a frame without signal returns None instead of the 'neutral' fallback
detect_emotion_none_fallback(history, analysis) ==
    LET c == Classify(analysis)
    IN  IF c.label # "none"
        THEN LET updated == _update_emotion_history(history, c.label)
                 special_state == _analyze_emotion_pattern(updated)
             IN  [ret |-> IF special_state # NoneVal THEN special_state ELSE c.label,
                  history |-> updated]
        ELSE [ret |-> NoneVal, history |-> history]

\* mutant: the effective (possibly derived) label is what gets recorded
detect_emotion_push_effective(history, analysis) ==
    LET c == Classify(analysis)
    IN  IF c.label # "none"
        THEN LET special_state == _analyze_emotion_pattern(_update_emotion_history(history, c.label))
                 effective == IF special_state # NoneVal THEN special_state ELSE c.label
             IN  [ret |-> effective, history |-> _update_emotion_history(history, effective)]
        ELSE [ret |-> "neutral", history |-> history]

\* mutant: the 'neutral' fallback is recorded in the history like an accepted sample
detect_emotion_fallback_recorded(history, analysis) ==
    LET c == Classify(analysis)
    IN  IF c.label # "none"
        THEN LET updated == _update_emotion_history(history, c.label)
                 special_state == _analyze_emotion_pattern(updated)
             IN  [ret |-> IF special_state # NoneVal THEN special_state ELSE c.label,
                  history |-> updated]
        ELSE [ret |-> "neutral", history |-> _update_emotion_history(history, "neutral")]

\* detect_emotion: the returned label and the history afterwards
detect_emotion(history, analysis) ==
    LET c == Classify(analysis)
    IN  IF c.label # "none"
        THEN LET updated == _update_emotion_history(history, c.label)
                 special_state == _analyze_emotion_pattern(updated)
             IN  [ret |-> IF special_state # NoneVal THEN special_state ELSE c.label,
                  history |-> updated]
        ELSE [ret |-> "neutral", history |-> history]

(***************************************************************************)
(* Environment: the subject's expression changes a bounded number of times *)
(***************************************************************************)
\* may the next classified frame show `label` ("none": no signal)?
MayShow(label) ==
    IF samples = <<>> THEN TRUE
    ELSE samples[Len(samples)] = label \/ switches < MaxSwitches

SwitchesAfter(label) ==
    IF samples # <<>> /\ samples[Len(samples)] # label THEN switches + 1 ELSE switches

\* the labels that reached _update_emotion_history, in order
IsLabel(x) == x # "none"
Accepted(s) == SelectSeq(s, IsLabel)

(***************************************************************************)
(* main(): control loop                                                    *)
(***************************************************************************)
\* mutant: `if current_emotion`
IsTransitionAlways(current, last) == current # NoneVal /\ current # ""

\* `if current_emotion and current_emotion != last_emotion`
IsTransition(current, last) == current # NoneVal /\ current # "" /\ current # last

\* mutant: the transition is acted upon but last_emotion is not updated
ProcessSampleNoCommit(history, last, params, analysis) ==
    LET r == detect_emotion(history, analysis)
        light == map_emotion_to_light(r.ret)
    IN  IF IsTransition(r.ret, last)
        THEN [current |-> r.ret, history |-> r.history, called |-> TRUE, args |-> light,
              last_emotion |-> last, last_light_params |-> light]
        ELSE [current |-> r.ret, history |-> r.history, called |-> FALSE, args |-> NoParams,
              last_emotion |-> last, last_light_params |-> params]

\* mutant: the label is committed but last_light_params keeps its old value
ProcessSampleStaleParams(history, last, params, analysis) ==
    LET r == detect_emotion(history, analysis)
        light == map_emotion_to_light(r.ret)
    IN  IF IsTransition(r.ret, last)
        THEN [current |-> r.ret, history |-> r.history, called |-> TRUE, args |-> light,
              last_emotion |-> r.ret, last_light_params |-> params]
        ELSE [current |-> r.ret, history |-> r.history, called |-> FALSE, args |-> NoParams,
              last_emotion |-> last, last_light_params |-> params]

\* one classified iteration of the loop body, lines 255-275, as a function of the state
ProcessSample(history, last, params, analysis) ==
    LET r == detect_emotion(history, analysis)
        light == map_emotion_to_light(r.ret)
    IN  IF IsTransition(r.ret, last)
        THEN [current |-> r.ret, history |-> r.history, called |-> TRUE, args |-> light,
              last_emotion |-> r.ret, last_light_params |-> light]
        ELSE [current |-> r.ret, history |-> r.history, called |-> FALSE, args |-> NoParams,
              last_emotion |-> last, last_light_params |-> params]

Init ==
    /\ pc = "loop"
    /\ frame_count = 0
    /\ current_emotion = NoneVal
    /\ last_emotion = NoneVal
    /\ last_light_params = NoParams
    /\ emotion_history = <<>>
    /\ ncalls = 0
    /\ last_call = NoParams
    /\ samples = <<>>
    /\ switches = 0
    /\ last_input = "start"
    /\ mapper_in = "default"
    /\ mapper_out = NoParams
    /\ mapper_pc = "pick"
    /\ last_write = "none"
    /\ music_pc = "read"
    /\ music_frames = 0
    /\ pending = <<>>
    /\ face_no = 0
    /\ current_music = NoneVal
    /\ playing = NoneVal
    /\ last_requested = NoneVal
    /\ last_result = "none"

\* mutant: the frame_count % FRAME_SKIP test is missing, every frame is classified
SkippedFrameClassifies ==
    /\ pc = "loop"
    /\ frame_count < MaxFrames
    /\ (frame_count + 1) % FRAME_SKIP # 0
    /\ \E analysis \in Analyses :
          /\ LET c == Classify(analysis)
             IN  /\ MayShow(c.label)
                 /\ samples' = Append(samples, c.label)
                 /\ switches' = SwitchesAfter(c.label)
                 /\ last_input' = c.shape
          /\ LET p == ProcessSample(emotion_history, last_emotion, last_light_params, analysis)
             IN  /\ frame_count' = frame_count + 1
                 /\ current_emotion' = p.current
                 /\ emotion_history' = p.history
                 /\ last_emotion' = p.last_emotion
                 /\ last_light_params' = p.last_light_params
                 /\ ncalls' = IF p.called THEN ncalls + 1 ELSE ncalls
                 /\ last_call' = IF p.called THEN p.args ELSE last_call
    /\ UNCHANGED pc
    /\ UNCHANGED <<mapperVars, lampVars>>
    /\ UNCHANGED musicVars

\* an iteration whose frame_count is not a multiple of FRAME_SKIP
SkippedFrame ==
    /\ pc = "loop"
    /\ frame_count < MaxFrames
    /\ (frame_count + 1) % FRAME_SKIP # 0
    /\ frame_count' = frame_count + 1
    /\ current_emotion' = NoneVal
    /\ UNCHANGED <<pc, last_emotion, last_light_params, emotion_history, ncalls,
                   last_call, samples, switches, last_input>>
    /\ UNCHANGED <<mapperVars, lampVars>>
    /\ UNCHANGED musicVars

\* BluetoothLampController.set_light: the command is built and written; a failed
\* write is logged, a reconnection is attempted, and nothing is raised to the caller
set_light(brightness, rgb) ==
    /\ ncalls' = ncalls + 1
    /\ last_call' = <<brightness, rgb>>

\* an iteration that classifies the frame (frame_count % FRAME_SKIP == 0)
SampledFrame(analysis) ==
    /\ pc = "loop"
    /\ frame_count < MaxFrames
    /\ (frame_count + 1) % FRAME_SKIP = 0
    /\ LET c == Classify(analysis)
       IN  /\ MayShow(c.label)
           /\ samples' = Append(samples, c.label)
           /\ switches' = SwitchesAfter(c.label)
           /\ last_input' = c.shape
    /\ LET p == ProcessSample(emotion_history, last_emotion, last_light_params, analysis)
       IN  /\ frame_count' = frame_count + 1
           /\ current_emotion' = p.current
           /\ emotion_history' = p.history
           /\ last_emotion' = p.last_emotion
           /\ last_light_params' = p.last_light_params
           /\ IF p.called
              THEN set_light(p.args[1], p.args[2])
              ELSE UNCHANGED <<ncalls, last_call>>
    /\ UNCHANGED pc
    /\ UNCHANGED <<mapperVars, lampVars>>
    /\ UNCHANGED musicVars

\* finally block: set_light(brightness=30, rgb=(255, 255, 200))
Teardown ==
    /\ pc' = "done"
    /\ set_light(30, <<255, 255, 200>>)
    /\ UNCHANGED <<last_emotion, last_light_params, emotion_history, samples, switches,
                   last_input>>
    /\ UNCHANGED mapperVars
    /\ UNCHANGED musicVars

\* cap.read() returns ret = False
ReadFail ==
    /\ pc = "loop"
    /\ Teardown
    /\ UNCHANGED <<frame_count, current_emotion, lampVars>>

\* cv2.waitKey(1) returns 'q' at the end of an iteration
QuitKey ==
    /\ pc = "loop"
    /\ frame_count > 0
    /\ Teardown
    /\ UNCHANGED <<frame_count, current_emotion, lampVars>>

\* mutant: the idle command sits behind the loop instead of in the finally block
LoopBodyRaisesNoIdle ==
    /\ pc = "loop"
    /\ frame_count < MaxFrames
    /\ frame_count' = frame_count + 1
    /\ current_emotion' = NoneVal
    /\ pc' = "done"
    /\ UNCHANGED <<last_emotion, last_light_params, emotion_history, samples, switches,
                   last_input, ncalls, last_call>>
    /\ UNCHANGED <<mapperVars, lampVars>>
    /\ UNCHANGED musicVars

\* KeyboardInterrupt or an exception raised in the loop body after `frame_count += 1` and
\* before the frame is classified (cv2.cvtColor, the overlay drawing, cv2.imshow)
LoopBodyRaises ==
    /\ pc = "loop"
    /\ frame_count < MaxFrames
    /\ frame_count' = frame_count + 1
    /\ current_emotion' = NoneVal
    /\ Teardown
    /\ UNCHANGED lampVars

Next ==
    \/ SkippedFrame
    \/ \E a \in Analyses : SampledFrame(a)
    \/ ReadFail
    \/ QuitKey
    \/ LoopBodyRaises

Spec == Init /\ [][Next]_vars

(***************************************************************************)
(* The control loop with the lamp gateway's failures observed              *)
(***************************************************************************)
\* control_char.write succeeds | it raises and _connect succeeds | it raises and _connect fails
WriteOutcomes == {"ok", "reconnected", "lost"}

\* BluetoothLampController._connect: how the call ends
_connect(succeeds) == IF succeeds THEN "return" ELSE "SystemExit"

\* mutant: `except Exception:` around the reconnection lets sys.exit(1) through
set_light_ends_narrow_except(outcome) ==
    IF outcome = "ok" THEN "return"
    ELSE _connect(outcome = "reconnected")

\* BluetoothLampController.set_light: how the call ends
set_light_ends(outcome) ==
    IF outcome = "ok" THEN "return"
    ELSE LET reconnect == _connect(outcome = "reconnected")
         \* bare `except:` catches whatever _connect raises, SystemExit included
         IN  IF reconnect # "return" THEN "return" ELSE reconnect

LampSkippedFrame ==
    /\ frame_count < MaxLampFrames
    /\ SkippedFrame

\* a classifying iteration; something set_light lets through skips the state update,
\* is not caught by `except Exception` when it is SystemExit, and ends in the finally block
LampSampledFrame(analysis, outcome) ==
    /\ pc = "loop"
    /\ frame_count < MaxLampFrames
    /\ (frame_count + 1) % FRAME_SKIP = 0
    /\ LET c == Classify(analysis)
       IN  /\ MayShow(c.label)
           /\ samples' = Append(samples, c.label)
           /\ switches' = SwitchesAfter(c.label)
           /\ last_input' = c.shape
    /\ LET p == ProcessSample(emotion_history, last_emotion, last_light_params, analysis)
       IN  /\ frame_count' = frame_count + 1
           /\ current_emotion' = p.current
           /\ emotion_history' = p.history
           /\ IF ~p.called
              THEN UNCHANGED <<pc, last_emotion, last_light_params, ncalls, last_call, last_write>>
              ELSE IF set_light_ends(outcome) = "return"
              THEN /\ set_light(p.args[1], p.args[2])
                   /\ last_write' = outcome
                   /\ last_emotion' = p.last_emotion
                   /\ last_light_params' = p.last_light_params
                   /\ UNCHANGED pc
              ELSE /\ ncalls' = ncalls + 2
                   /\ last_call' = <<30, <<255, 255, 200>>>>
                   /\ last_write' = outcome
                   /\ pc' = "done"
                   /\ UNCHANGED <<last_emotion, last_light_params>>
    /\ UNCHANGED mapperVars
    /\ UNCHANGED musicVars

\* the loop is left and the idle command of the finally block meets `outcome`
LampLeave(outcome) ==
    /\ pc = "loop"
    /\ Teardown
    /\ last_write' = outcome
    /\ UNCHANGED <<frame_count, current_emotion>>

NextLamp ==
    \/ LampSkippedFrame
    \/ \E a \in Analyses, o \in WriteOutcomes : LampSampledFrame(a, o)
    \/ \E o \in WriteOutcomes : LampLeave(o)

SpecLamp == Init /\ [][NextLamp]_vars

(***************************************************************************)
(* EmotionProcessor driven directly: repeated detect_emotion calls         *)
(***************************************************************************)
DetectEmotionCall(analysis) ==
    /\ Len(samples) < MaxCalls
    /\ LET c == Classify(analysis)
       IN  /\ MayShow(c.label)
           /\ samples' = Append(samples, c.label)
           /\ switches' = SwitchesAfter(c.label)
    /\ LET r == detect_emotion(emotion_history, analysis)
       IN  /\ current_emotion' = r.ret
           /\ emotion_history' = r.history
    /\ UNCHANGED last_input
    /\ UNCHANGED loopVars
    /\ UNCHANGED <<mapperVars, lampVars>>
    /\ UNCHANGED musicVars

NextHistory == \E a \in Analyses : DetectEmotionCall(a)

SpecHistory == Init /\ [][NextHistory]_vars

(***************************************************************************)
(* map_emotion_to_light called directly                                    *)
(***************************************************************************)
MapperInputs ==
    supported_emotions \cup DerivedLabels
    \cup {"default", "unknown", "contempt", "none", "", "Happy", "FOCUSED"}

MapperPick(emotion) ==
    /\ mapper_pc = "called"
    /\ mapper_in' = emotion
    /\ mapper_pc' = "pick"
    /\ UNCHANGED mapper_out
    /\ UNCHANGED <<pc, frame_count, current_emotion, last_emotion, last_light_params,
                   emotion_history, ncalls, last_call, samples, switches, last_input>>
    /\ UNCHANGED lampVars
    /\ UNCHANGED musicVars

MapperCall ==
    /\ mapper_pc = "pick"
    /\ mapper_out' = map_emotion_to_light(mapper_in)
    /\ mapper_pc' = "called"
    /\ UNCHANGED mapper_in
    /\ UNCHANGED <<pc, frame_count, current_emotion, last_emotion, last_light_params,
                   emotion_history, ncalls, last_call, samples, switches, last_input>>
    /\ UNCHANGED lampVars
    /\ UNCHANGED musicVars

InitMapper ==
    /\ pc = "loop"
    /\ frame_count = 0
    /\ current_emotion = NoneVal
    /\ last_emotion = NoneVal
    /\ last_light_params = NoParams
    /\ emotion_history = <<>>
    /\ ncalls = 0
    /\ last_call = NoParams
    /\ samples = <<>>
    /\ switches = 0
    /\ last_input = "start"
    /\ mapper_in \in MapperInputs
    /\ mapper_out = NoParams
    /\ mapper_pc = "pick"
    /\ last_write = "none"
    /\ music_pc = "read"
    /\ music_frames = 0
    /\ pending = <<>>
    /\ face_no = 0
    /\ current_music = NoneVal
    /\ playing = NoneVal
    /\ last_requested = NoneVal
    /\ last_result = "none"

NextMapper ==
    \/ MapperCall
    \/ \E e \in MapperInputs : MapperPick(e)

SpecMapper == InitMapper /\ [][NextMapper]_vars

(***************************************************************************)
(* The music variant: play_music_for_emotion and its frame loop            *)
(***************************************************************************)
\* the keys of face['emotions'] in the order `for key in emotion` visits them
EmotionKeys == <<"angry", "disgust", "fear", "happy", "sad", "surprise", "neutral">>

KeySet == {EmotionKeys[i] : i \in 1..Len(EmotionKeys)}

emotion_music == [e \in KeySet |->
    CASE e = "happy"    -> "music/happy.mp3"
      [] e = "sad"      -> "music/sad.mp3"
      [] e = "angry"    -> "music/angry.mp3"
      [] e = "surprise" -> "music/surprise.mp3"
      [] e = "neutral"  -> "music/neutral.mp3"
      [] e = "fear"     -> "music/fear.mp3"
      [] e = "disgust"  -> "music/disgust.mp3"]

\* the scan `max_emotion = {'none': 0}; for key in emotion: if emotion.get(key) > ...`
RECURSIVE MaxEmotionFrom(_, _, _, _)
MaxEmotionFrom(emotion, i, best_key, best_val) ==
    IF i > Len(EmotionKeys) THEN best_key
    ELSE IF emotion[EmotionKeys[i]] > best_val
         THEN MaxEmotionFrom(emotion, i + 1, EmotionKeys[i], emotion[EmotionKeys[i]])
         ELSE MaxEmotionFrom(emotion, i + 1, best_key, best_val)

max_emotion(emotion) == MaxEmotionFrom(emotion, 1, "none", 0)

\* score dictionaries the detector may report: one label on top, two labels
\* tied on top, or all scores zero
Peaks(a, b) == [k \in KeySet |-> IF k = a \/ k = b THEN 50 ELSE 0]

TiedPairs == {<<"happy", "sad">>, <<"neutral", "sad">>}

MusicFaces ==
    {Peaks(a, a) : a \in KeySet} \cup {Peaks(t[1], t[2]) : t \in TiedPairs}
        \cup {[k \in KeySet |-> 0]}

\* the lists of at most n faces
FaceLists(n) == UNION {[1..m -> MusicFaces] : m \in 0..n}

\* how pygame.mixer.music.load / play(-1) may go; a failure may or may not
\* have stopped the track that was playing
PlayOutcomes == {"ok", "fails_silent", "fails_still_playing"}

play_music_for_emotion_always_loads(emotion, cur, snd, outcome) ==
    IF emotion \notin DOMAIN emotion_music
    THEN [current_music |-> cur, playing |-> snd, result |-> "unknown"]
    ELSE IF outcome = "ok"
    THEN [current_music |-> emotion_music[emotion], playing |-> emotion_music[emotion],
          result |-> "ok"]
    ELSE [current_music |-> cur,
          playing |-> IF outcome = "fails_silent" THEN NoneVal ELSE snd,
          result |-> "failed"]

play_music_for_emotion(emotion, cur, snd, outcome) ==
    IF emotion \notin DOMAIN emotion_music
    THEN [current_music |-> cur, playing |-> snd, result |-> "unknown"]
    ELSE IF cur = emotion_music[emotion]
    THEN [current_music |-> cur, playing |-> snd, result |-> "same"]
    ELSE IF outcome = "ok"
    THEN [current_music |-> emotion_music[emotion], playing |-> emotion_music[emotion],
          result |-> "ok"]
    ELSE [current_music |-> cur,
          playing |-> IF outcome = "fails_silent" THEN NoneVal ELSE snd,
          result |-> "failed"]

nonMusicVars == <<pc, frame_count, current_emotion, last_emotion, last_light_params,
                  emotion_history, ncalls, last_call, samples, switches, last_input,
                  mapperVars, lampVars>>

\* cap.read() succeeds and detect_emotions reports `faces`
MusicReadFrame(faces) ==
    /\ music_pc = "read"
    /\ music_frames < MaxMusicFrames
    /\ music_frames' = music_frames + 1
    /\ pending' = [i \in 1..Len(faces) |-> max_emotion(faces[i])]
    /\ face_no' = 0
    /\ music_pc' = IF faces = <<>> THEN "read" ELSE "faces"
    /\ UNCHANGED <<current_music, playing, last_requested, last_result>>
    /\ UNCHANGED nonMusicVars

\* one pass of `for face in faces`, ending with play_music_for_emotion(current_emotion)
MusicFace(outcome) ==
    /\ music_pc = "faces"
    /\ pending # <<>>
    /\ LET r == play_music_for_emotion(Head(pending), current_music, playing, outcome)
       IN /\ current_music' = r.current_music
          /\ playing' = r.playing
          /\ last_result' = r.result
    /\ last_requested' = Head(pending)
    /\ pending' = Tail(pending)
    /\ face_no' = face_no + 1
    /\ music_pc' = IF Tail(pending) = <<>> THEN "read" ELSE "faces"
    /\ UNCHANGED music_frames
    /\ UNCHANGED nonMusicVars

\* cap.read() fails, or `q` is pressed at the end of a frame: pygame.mixer.quit()
MusicClose ==
    /\ music_pc = "read"
    /\ music_pc' = "closed"
    /\ playing' = NoneVal
    /\ UNCHANGED <<music_frames, pending, face_no, current_music, last_requested, last_result>>
    /\ UNCHANGED nonMusicVars

NextMusic ==
    \/ \E faces \in FaceLists(MaxFaces) : MusicReadFrame(faces)
    \/ \E outcome \in PlayOutcomes : MusicFace(outcome)
    \/ MusicClose

SpecMusic == Init /\ [][NextMusic]_vars

(***************************************************************************)
(* Properties                                                              *)
(***************************************************************************)
LoopSteps == pc = "loop" /\ pc' = "loop" /\ Len(samples') = Len(samples) + 1
NeutralLight == <<65, <<220, 230, 255>>>>
EmptyAnalysis == [kind |-> "list", faces |-> <<>>]
OneFace(f) == [kind |-> "list", faces |-> <<f>>]
\* every classified frame so far was accepted with one and the same raw label
SameLabelRun ==
    /\ pc = "loop"
    /\ samples # <<>>
    /\ samples[1] \in supported_emotions
    /\ switches = 0

\* C1 (as stated): from a fresh start, N >= 1 classified frames accepted with the same raw
\* label cause exactly one set_light invocation in total, whatever N is.
C1_OneCallForAnyRun == SameLabelRun => ncalls = 1

\* C1 (amended): from a fresh start, N >= 1 classified frames accepted with the same raw label
\* cause exactly one set_light invocation (on the first frame) for angry, surprise, fear and
\* disgust whatever N is, and for happy, neutral and sad while N <= 9; for happy, neutral and
\* sad the 10th frame turns the effective label into focused resp. tired and causes a second
\* invocation, after which no further one follows (two in total for every N >= 10).
C1_OneCallUntilDerived ==
    SameLabelRun =>
        ncalls = IF samples[1] \in {"happy", "neutral", "sad"} /\ Len(samples) >= MinHistory
                 THEN 2 ELSE 1

C1_Witness ==
    /\ SameLabelRun
    /\ Len(samples) = 11
    /\ samples[1] = "happy"
    /\ last_emotion = "focused"
    /\ ncalls = 2

C3_Step ==
    LoopSteps =>
        IF current_emotion' = last_emotion
        THEN /\ ncalls' = ncalls
             /\ last_call' = last_call
             /\ last_emotion' = last_emotion
             /\ last_light_params' = last_light_params
        ELSE /\ ncalls' = ncalls + 1
             /\ last_call' = map_emotion_to_light(current_emotion')
             /\ last_emotion' = current_emotion'
             /\ last_light_params' = last_call'

C3_TransitionIffDiffers ==
    /\ [][C3_Step]_vars
    /\ []((pc = "loop" /\ samples = <<"happy", "happy", "happy">>) => ncalls = 1)

C3_Witness ==
    /\ pc = "loop"
    /\ samples = <<"happy", "happy", "happy">>
    /\ last_emotion = "happy"
    /\ last_call = <<85, <<255, 200, 100>>>>
    /\ ncalls = 1

\* C4: a classification with confidence <= 20 (15, and 20 itself) is treated exactly as a
\* frame without a face: same returned label, history, committed state and actuator calls;
\* a confidence above 20 is accepted (its label is appended to the history).
C4_LowConfidenceIsNoFace ==
    (pc = "loop" /\ (frame_count + 1) % FRAME_SKIP = 0) =>
        \A f \in Faces :
            IF f.confidence <= 20
            THEN ProcessSample(emotion_history, last_emotion, last_light_params, OneFace(f))
                 = ProcessSample(emotion_history, last_emotion, last_light_params, EmptyAnalysis)
            ELSE LET h == ProcessSample(emotion_history, last_emotion, last_light_params,
                                        OneFace(f)).history
                 IN  /\ h # <<>>
                     /\ h[Len(h)] = f.dominant_emotion
                     /\ Len(h) = IF Len(emotion_history) < history_max_len
                                 THEN Len(emotion_history) + 1 ELSE history_max_len

\* a happy frame was accepted, then a low-confidence frame was processed as "no face"
C4_Witness ==
    /\ pc = "loop"
    /\ last_input = "lowconf"
    /\ samples = <<"happy", "none">>
    /\ emotion_history = <<"happy">>
    /\ last_emotion = "neutral"
    /\ ncalls = 2

\* the last WindowLen positions of the history buffer
Window == (Len(emotion_history) - WindowLen + 1) .. Len(emotion_history)
FocusInWindow == Cardinality({i \in Window : emotion_history[i] \in {"neutral", "happy"}})
SadInWindow == Cardinality({i \in Window : emotion_history[i] = "sad"})
LastTen == SubSeq(emotion_history, Len(emotion_history) - 9, Len(emotion_history))
Repeat(x, n) == [i \in 1 .. n |-> x]

\* the latest detect_emotion call accepted its sample
LastAccepted == samples # <<>> /\ samples[Len(samples)] # "none"

\* a window of 10 holding n neutral, p happy, s sad and angry for the rest, behind `old`
Blocks(old, n, p, s) ==
    old \o Repeat("neutral", n) \o Repeat("happy", p) \o Repeat("sad", s)
        \o Repeat("angry", WindowLen - n - p - s)
WindowCounts == {c \in (0 .. 10) \X (0 .. 10) \X (0 .. 10) : c[1] + c[2] + c[3] <= 10}
OlderEntries == {<<>>, Repeat("sad", 10), Repeat("neutral", 10), Repeat("fear", 3)}

\* C5: for a history of at least 10 entries the pattern detector returns focused if and only
\* if neutral and happy together fill at least 8 of the last 10 entries; entries older than
\* the last 10 do not influence the verdict; [neutral]*8 + [sad]*2 yields focused.
C5_FocusRule ==
    /\ _analyze_emotion_pattern(Repeat("neutral", 8) \o Repeat("sad", 2)) = "focused"
    /\ samples = <<>> =>
          \A c \in WindowCounts, old \in OlderEntries :
              (_analyze_emotion_pattern(Blocks(old, c[1], c[2], c[3])) = "focused")
                  <=> (c[1] + c[2] >= 8)
    /\ Len(emotion_history) >= 10 =>
          /\ (_analyze_emotion_pattern(emotion_history) = "focused") <=> (FocusInWindow >= 8)
          /\ _analyze_emotion_pattern(emotion_history) = _analyze_emotion_pattern(LastTen)
          /\ LastAccepted => ((current_emotion = "focused") <=> (FocusInWindow >= 8))

C5_Witness ==
    /\ emotion_history = Repeat("neutral", 8) \o Repeat("sad", 2)
    /\ LastAccepted
    /\ current_emotion = "focused"

\* C6: for a history of at least 10 entries on which the focus rule does not fire, the
\* detector returns tired if the last 10 entries hold at least 6 sad (exactly 6 included)
\* and no derived state if they hold 5 or fewer.
C6_FatigueRule ==
    /\ samples = <<>> =>
          \A c \in WindowCounts, old \in OlderEntries :
              c[1] + c[2] < 8 =>
                  _analyze_emotion_pattern(Blocks(old, c[1], c[2], c[3]))
                      = IF c[3] >= 6 THEN "tired" ELSE NoneVal
    /\ (Len(emotion_history) >= 10 /\ FocusInWindow < 8) =>
          /\ SadInWindow >= 6 =>
                /\ _analyze_emotion_pattern(emotion_history) = "tired"
                /\ LastAccepted => current_emotion = "tired"
          /\ SadInWindow <= 5 =>
                /\ _analyze_emotion_pattern(emotion_history) = NoneVal
                /\ LastAccepted =>
                      current_emotion = emotion_history[Len(emotion_history)]

\* exactly 6 sad among the last 10, the others not counting for focus
C6_Witness ==
    /\ Len(emotion_history) >= 10
    /\ SadInWindow = 6
    /\ FocusInWindow = 0
    /\ LastAccepted
    /\ current_emotion = "tired"

LastN(s, n) == IF Len(s) <= n THEN s ELSE SubSeq(s, Len(s) - n + 1, Len(s))

\* C8: the history buffer never holds more than 20 entries and always equals, in order, the
\* most recent min(n, 20) accepted labels: the 21st push evicts exactly the oldest entry and
\* nothing else is ever removed.
C8_HistoryIsRecentAccepted ==
    /\ Len(emotion_history) <= 20
    /\ emotion_history = LastN(Accepted(samples), 20)

\* 21 accepted labels, the first differing from the second: the first one is gone
C8_Witness ==
    /\ Len(samples) = 21
    /\ \A i \in 1 .. 21 : samples[i] # "none"
    /\ samples[1] # samples[2]
    /\ Len(emotion_history) = 20
    /\ emotion_history[1] = samples[2]
    /\ emotion_history[20] = samples[21]

LightTable(emotion) ==
    CASE emotion = "happy"    -> <<85, <<255, 200, 100>>>>
      [] emotion = "neutral"  -> <<65, <<220, 230, 255>>>>
      [] emotion = "sad"      -> <<45, <<150, 180, 255>>>>
      [] emotion = "angry"    -> <<55, <<255, 100, 100>>>>
      [] emotion = "surprise" -> <<70, <<255, 255, 200>>>>
      [] emotion = "fear"     -> <<40, <<100, 100, 200>>>>
      [] emotion = "disgust"  -> <<50, <<150, 200, 100>>>>
      [] emotion = "focused"  -> <<95, <<255, 255, 255>>>>
      [] emotion = "tired"    -> <<45, <<255, 180, 80>>>>
      [] OTHER                -> <<65, <<255, 255, 255>>>>

\* C9: map_emotion_to_light is total and returns the table entry of each of the nine labels
\* and the default (65, (255, 255, 255)) for every other label; brightness is in 0..100 and
\* every colour channel in 0..255.
C9_MapperTable ==
    mapper_pc = "called" =>
        /\ mapper_out = LightTable(mapper_in)
        /\ Len(mapper_out) = 2
        /\ mapper_out[1] \in 0 .. 100
        /\ Len(mapper_out[2]) = 3
        /\ \A k \in 1 .. 3 : mapper_out[2][k] \in 0 .. 255

C9_Witness ==
    /\ mapper_pc = "called"
    /\ mapper_in = "unknown"
    /\ mapper_out = <<65, <<255, 255, 255>>>>

\* C10: the history buffer only ever holds raw classifier labels; focused and tired never
\* appear in it, also after they have been returned and committed.
C10_HistoryHoldsRawLabels ==
    \A i \in 1 .. Len(emotion_history) :
        /\ emotion_history[i] \in supported_emotions
        /\ emotion_history[i] \notin DerivedLabels

\* a derived label is committed and a further label has been pushed since
C10_Witness ==
    /\ last_emotion \in DerivedLabels
    /\ current_emotion = last_emotion
    /\ Len(emotion_history) = 11

\* C11: when the lamp write fails during a transition (the reconnection may fail too), the
\* failure stays inside set_light, the loop keeps running and the committed state is not
\* rolled back: last_emotion and last_light_params hold the new label and its parameters.
C11_FailedWriteKeepsCommit ==
    [][(pc = "loop" /\ Len(samples') = Len(samples) + 1 /\ ncalls' # ncalls
            /\ last_write' \in {"reconnected", "lost"})
          => /\ pc' = "loop"
             /\ ncalls' = ncalls + 1
             /\ last_emotion' = current_emotion'
             /\ last_emotion' # last_emotion
             /\ last_light_params' = map_emotion_to_light(current_emotion')
             /\ last_call' = last_light_params']_vars

\* the write for the transition neutral -> happy failed and the reconnection failed as well
C11_Witness ==
    /\ pc = "loop"
    /\ last_write = "lost"
    /\ samples = <<"neutral", "happy">>
    /\ last_emotion = "happy"
    /\ last_light_params = <<85, <<255, 200, 100>>>>
    /\ ncalls = 2

\* a step of the music variant that handles one face of the current frame
MusicFaceStep == music_pc = "faces"

\* the call made by this step tried to load and start a track
PlayAttempted == last_result' \in {"ok", "failed"}

\* C12: in the music variant the player is loaded and started exactly when
\* the requested emotion has a track and that track differs from
\* current_music; a call that requests the current track changes nothing,
\* a successful play records the requested track as current_music, and
\* nothing but a call of play_music_for_emotion touches current_music.
C12_PlayOnlyOnChange ==
    [][/\ MusicFaceStep =>
            /\ PlayAttempted <=> (/\ Head(pending) \in DOMAIN emotion_music
                                  /\ emotion_music[Head(pending)] # current_music)
            /\ ~PlayAttempted => (current_music' = current_music /\ playing' = playing)
            /\ last_result' = "ok" => /\ current_music' = emotion_music[Head(pending)]
                                      /\ playing' = current_music'
       /\ ~MusicFaceStep => (current_music' = current_music /\ last_result' = last_result)]_vars

\* C12 witness: happy was started and then requested again without a reload
C12_Witness ==
    /\ last_result = "same"
    /\ last_requested = "happy"
    /\ current_music = "music/happy.mp3"
    /\ playing = "music/happy.mp3"

\* C13: of the faces reported in one frame only the first drives the player:
\* handling a later face makes no load/play attempt and leaves the current
\* track as it was.
C13_OnlyFirstFaceDrives ==
    [][(MusicFaceStep /\ face_no >= 1) =>
            /\ ~PlayAttempted
            /\ current_music' = current_music
            /\ playing' = playing]_vars

\* C17: in the music variant a failed play is terminal for its transition:
\* the requested track is recorded as current_music although load/play
\* raised, so a following call with the same emotion makes no new attempt.
C17_FailedPlayIsTerminal ==
    [][MusicFaceStep =>
            /\ last_result' = "failed" => current_music' = emotion_music[Head(pending)]
            /\ (last_result = "failed" /\ Head(pending) = last_requested) => ~PlayAttempted]_vars

\* C14: while the history holds fewer than 10 entries the pattern detector
\* returns no derived state, so each of the first 9 accepted samples is
\* returned as its raw label; the sample is appended before the detector
\* runs, so the 10th accepted sample is judged on a window that includes it
\* and is the first that can come back as focused or tired.
C14_NoDerivedStateBeforeTen ==
    /\ Len(emotion_history) < 10 =>
          /\ _analyze_emotion_pattern(emotion_history) = NoneVal
          /\ LastAccepted => /\ current_emotion = samples[Len(samples)]
                             /\ current_emotion \notin DerivedLabels
    /\ (Len(emotion_history) = 10 /\ LastAccepted) =>
          /\ emotion_history[10] = samples[Len(samples)]
          /\ current_emotion = IF FocusInWindow >= 8 THEN "focused"
                               ELSE IF SadInWindow >= 6 THEN "tired"
                               ELSE samples[Len(samples)]

\* C14 witness: the 10th accepted sad sample is the first returned as tired
C14_Witness ==
    /\ samples = Repeat("sad", 10)
    /\ emotion_history = Repeat("sad", 10)
    /\ current_emotion = "tired"

\* what a frame can change besides the frame counter: the classifier's
\* inputs seen so far, the history buffer, the committed state and the
\* actuator calls
FrameEffects == <<samples, emotion_history, last_emotion, last_light_params, ncalls, last_call>>

\* C15: an iteration whose frame_count is not a multiple of FRAME_SKIP = 5
\* calls neither the classifier nor the stabilizer: samples, history,
\* last_emotion and last_light_params stay as they are and no set_light call
\* is made; an iteration of the running loop that changes any of these has
\* a frame_count that is a multiple of 5.
C15_UnsampledFrameChangesNothing ==
    [][(pc = "loop" /\ pc' = "loop") =>
            /\ frame_count' = frame_count + 1
            /\ frame_count' % FRAME_SKIP # 0 =>
                  (UNCHANGED FrameEffects /\ current_emotion' = NoneVal)
            /\ FrameEffects' # FrameEffects => frame_count' % FRAME_SKIP = 0]_vars

\* C15 witness: after a committed happy sample at frame 5, frames 6 and 7
\* were read and left the committed state and the call count alone
C15_Witness ==
    /\ pc = "loop"
    /\ frame_count = 7
    /\ samples = <<"happy">>
    /\ last_emotion = "happy"
    /\ current_emotion = NoneVal
    /\ ncalls = 1

\* C16: when the classifier raises on a sampled frame, detect_emotion
\* catches the exception: the history buffer is unchanged, the label
\* neutral is returned (and committed like any other label), and the loop
\* is still running afterwards.
C16_ClassifierFailureIsNeutral ==
    [][(pc = "loop" /\ Len(samples') = Len(samples) + 1 /\ last_input' = "raises") =>
            /\ pc' = "loop"
            /\ frame_count' = frame_count + 1
            /\ emotion_history' = emotion_history
            /\ current_emotion' = "neutral"
            /\ last_emotion' = "neutral"
            /\ last_light_params' = NeutralLight
            /\ IF last_emotion = "neutral"
               THEN UNCHANGED <<ncalls, last_call>>
               ELSE ncalls' = ncalls + 1 /\ last_call' = NeutralLight]_vars

\* C16 witness: happy was accepted, then the classifier raised on the next
\* sampled frame and the loop went on to frame 11
C16_Witness ==
    /\ pc = "loop"
    /\ frame_count = 11
    /\ last_input = "raises"
    /\ samples = <<"happy", "none">>
    /\ emotion_history = <<"happy">>
    /\ last_emotion = "neutral"
    /\ ncalls = 2

\* the command of the finally block
IdleLight == <<30, <<255, 255, 200>>>>

\* C18: every way out of the running control loop (quit key, failed frame
\* read, an exception in the loop body) issues exactly one more set_light
\* call, the idle command (30, (255,255,200)); the committed label and
\* parameters and the history are not changed by it, and no actuator
\* command follows it.
C18_TeardownIssuesIdleOnce ==
    [][/\ (pc = "loop" /\ pc' = "done") =>
             /\ ncalls' = ncalls + 1
             /\ last_call' = IdleLight
             /\ UNCHANGED <<last_emotion, last_light_params, emotion_history>>
       /\ pc = "done" => UNCHANGED <<pc, ncalls, last_call, last_emotion, last_light_params>>]_vars

\* C18 witness: happy was committed at frame 5, the loop was left during
\* frame 6, and the idle command is the second and last call
C18_Witness ==
    /\ pc = "done"
    /\ frame_count = 6
    /\ last_emotion = "happy"
    /\ last_light_params = <<85, <<255, 200, 100>>>>
    /\ ncalls = 2
    /\ last_call = IdleLight

\* the committed parameters are the table image of the committed label
CommittedPair ==
    IF last_emotion = NoneVal
    THEN last_light_params = NoParams /\ ncalls = 0
    ELSE /\ last_light_params # NoParams
         /\ last_light_params = map_emotion_to_light(last_emotion)
         /\ last_call = last_light_params

\* C19: in every state inside the control loop last_light_params is None
\* iff last_emotion is None, and otherwise it equals
\* map_emotion_to_light(last_emotion) and the arguments of the most recent
\* set_light call; an iteration changes last_emotion exactly when it makes a
\* set_light call, and last_light_params changes only in such an iteration.
C19_ParamsAreImageOfLabel ==
    [][/\ pc = "loop" => CommittedPair
       /\ pc' = "loop" => CommittedPair'
       /\ (pc = "loop" /\ pc' = "loop") =>
             /\ last_emotion' # last_emotion <=> ncalls' = ncalls + 1
             /\ last_light_params' # last_light_params => last_emotion' # last_emotion
             /\ last_emotion' = last_emotion => UNCHANGED <<ncalls, last_call, last_light_params>>]_vars

\* C19 witness: sad was committed after happy
C19_Witness ==
    /\ pc = "loop"
    /\ samples = <<"happy", "sad">>
    /\ last_emotion = "sad"
    /\ last_light_params = map_emotion_to_light("sad")
    /\ last_call = last_light_params
    /\ ncalls = 2

\* the two rules of the pattern detector on a window `recent`
FocusHolds(recent) == Count(recent, "neutral") + Count(recent, "happy") >= FocusCount

FatigueHolds(recent) == Count(recent, "sad") >= TiredCount

\* the rules never both hold on the window the code counts over, and the
\* code's verdict is the one obtained with the fatigue rule checked first
OrderIrrelevant(history) ==
    LET recent == Recent(history)
        focus == FocusHolds(recent)
        fatigue == FatigueHolds(recent)
    IN  /\ ~(focus /\ fatigue)
        /\ _analyze_emotion_pattern(history) =
              IF Len(history) < MinHistory THEN NoneVal
              ELSE IF fatigue THEN "tired"
              ELSE IF focus THEN "focused"
              ELSE NoneVal

\* C20: on every history the program can build, the focus rule and the
\* fatigue rule never both hold on the window the detector counts over, so
\* checking the fatigue rule first would give the same verdict as the code's
\* order; the same holds for every composition of a 10-entry window.
C20_RulesAreExclusive ==
    /\ OrderIrrelevant(emotion_history)
    /\ samples = <<>> =>
          \A c \in WindowCounts, old \in OlderEntries :
              OrderIrrelevant(Blocks(old, c[1], c[2], c[3]))

\* C20 witness: 8 neutral then 6 sad; the buffer as a whole holds enough of
\* both kinds, its last 10 entries only satisfy the fatigue rule
C20_Witness ==
    /\ emotion_history = Repeat("neutral", 8) \o Repeat("sad", 6)
    /\ FatigueHolds(Recent(emotion_history))
    /\ ~FocusHolds(Recent(emotion_history))
    /\ current_emotion = "tired"

====
